---- MODULE Spec2Model ----
(***************************************************************************)
(* A model of dealroom_firestore_connector: the retry-wrapped facade       *)
(* (new_connection / get / set / update / stream), the paged get_all, the  *)
(* Batcher (its write counter and what its commits do to the store), and   *)
(* the history-collection upsert (set_history_doc_refs).                   *)
(*                                                                         *)
(* The Firestore client is the environment: every underlying client call   *)
(* of an invocation either succeeds or raises, as an oracle `env` drawn by *)
(* the action says (env[i] is the outcome of the i-th client call made).   *)
(***************************************************************************)
EXTENDS Integers, Sequences, FiniteSets, TLC

VARIABLES
    db,            \* the documents that exist: document path -> field map
    calls,         \* invocations made so far (also the clock of datetime.now)
    last,          \* what the last facade / upsert invocation did and returned
    total_writes,  \* Batcher.__total_writes
    write_pbs,     \* writes pending in the underlying WriteBatch
    pending,       \* what the pending writes will do to each document at commit
    blast,         \* what the last Batcher call did and returned
    inflight       \* the set_history_doc_refs calls that concurrent clients are in

vars == <<db, calls, last, total_writes, write_pbs, pending, blast, inflight>>

(***************************************************************************)
(* Bounds of the model.                                                    *)
(***************************************************************************)
MaxCalls == 2          \* facade invocations per behaviour
MaxUpserts == 1        \* set_history_doc_refs calls per behaviour
MaxDocs == 3           \* document ids per collection
MaxOverLimit == 2      \* how far total_writes may run past the batch limit
MaxWriteFaults == 1    \* writes per batch that the underlying WriteBatch itself refuses
MaxFaults == 2         \* client calls of one invocation that fail

(***************************************************************************)
(* Program constants.                                                      *)
(***************************************************************************)
ERROR == -1
SUCCESS == 0
CREATED == 1
UPDATED == 2
EXCEPTION_SLEEP_TIME == 5
MAX_WRITES_PER_BATCH == 500
HISTORY_COLLECTION_PATH == "history"
_DELETED_DEALROOM_ENTITY_ID == -2
_NOT_IN_DEALROOM_ENTITY_ID == -1

(***************************************************************************)
(* Values.  A returned value is a status code or an object of the client   *)
(* (a snapshot, a stream of documents); `x == ERROR` is IsError(x).        *)
(***************************************************************************)
RetCode(c) == [isCode |-> TRUE, code |-> c, docs |-> <<>>]
RetObj(d) == [isCode |-> FALSE, code |-> 0, docs |-> d]
RetNone == RetObj(<<>>)
IsError(r) == r.isCode /\ r.code = ERROR

(***************************************************************************)
(* References handed to the facade.  A DocumentReference has a .path; a    *)
(* CollectionReference or Query (what .where()/.limit() build) and the     *)
(* credentials_path string (or None) of new_connection have none.          *)
(***************************************************************************)
DocIds == 1..MaxDocs
DocRef(p) == [kind |-> "document", path |-> p, field |-> "", url |-> "", id |-> 0]
QueryRef(coll, f, u, i) == [kind |-> "query", path |-> <<coll>>, field |-> f, url |-> u, id |-> i]
CredRef == [kind |-> "str", path |-> <<>>, field |-> "", url |-> "", id |-> 0]
HasPath(ref) == ref.kind = "document"

HistoryPaths == {<<HISTORY_COLLECTION_PATH, i>> : i \in DocIds}

\* {**a, **b}, and DocumentReference.set(..., merge=True) on an existing document
Merge(a, b) == [f \in (DOMAIN a) \cup (DOMAIN b) |-> IF f \in DOMAIN b THEN b[f] ELSE a[f]]
EmptyDoc == [f \in {} |-> 0]
EmptyDb == [p \in {} |-> EmptyDoc]

\* the document store after a successful DocumentReference.set(data, merge=True)
DbSet(d, p, data) ==
    [q \in (DOMAIN d) \cup {p} |->
        IF q = p THEN (IF p \in DOMAIN d THEN Merge(d[p], data) ELSE data) ELSE d[q]]

(***************************************************************************)
(* __log_exception and helpers.error_logger: one logging.error line per    *)
(* call; the message of codes 1..5 reads ref.path first.                   *)
(***************************************************************************)
error_logger(error_code) == <<[code |-> error_code, retried |-> TRUE]>>

__log_exception(error_code, ref, was_retried) ==
    IF error_code \in 1..5 /\ ~HasPath(ref)
    THEN [raised |-> TRUE, lines |-> <<>>]
    ELSE [raised |-> FALSE,
          lines |-> IF was_retried THEN error_logger(error_code)
                    ELSE <<[code |-> error_code, retried |-> FALSE]>>]

\* the outcome of a facade invocation; tries[k] is whether the k-th attempt succeeded
Outcome(exc, ret, logs, sleeps, tries, remote, d) ==
    [exc |-> exc, ret |-> ret, logs |-> logs, sleeps |-> sleeps,
     tries |-> tries, remote |-> remote, db |-> d]

Slept == <<EXCEPTION_SLEEP_TIME>>

(***************************************************************************)
(* The Firestore client (the opaque collaborator).  A call that the oracle *)
(* lets succeed does what the service documents: a query streams the       *)
(* matching documents of its collection in id order; update() of a         *)
(* document that does not exist raises NotFound.                           *)
(***************************************************************************)
IntVal(n) == [isStr |-> FALSE, num |-> TRUE, n |-> n]
StrVal(n) == [isStr |-> TRUE, num |-> TRUE, n |-> n]
StrJunk == [isStr |-> TRUE, num |-> FALSE, n |-> 0]

IdSeq == [i \in 1..MaxDocs |-> i]

QueryMatches(d, ref, p) ==
    /\ p \in DOMAIN d
    /\ CASE ref.field = "final_url" ->
                "final_url" \in DOMAIN d[p] /\ d[p].final_url = ref.url
         [] ref.field = "current_related_urls" ->
                "current_related_urls" \in DOMAIN d[p] /\ ref.url \in d[p].current_related_urls
         [] ref.field = "dealroom_id" ->
                "dealroom_id" \in DOMAIN d[p] /\ d[p].dealroom_id = IntVal(ref.id)
         [] OTHER -> TRUE

ClientRead(d, ref) ==
    IF ref.kind = "document"
    THEN (IF ref.path \in DOMAIN d THEN <<ref.path>> ELSE <<>>)
    ELSE LET ids == SelectSeq(IdSeq, LAMBDA i : QueryMatches(d, ref, <<ref.path[1], i>>))
         IN  [k \in 1..Len(ids) |-> <<ref.path[1], ids[k]>>]

ClientUpdate(d, p, data, ok) ==
    IF ok /\ p \in DOMAIN d
    THEN [ok |-> TRUE, db |-> DbSet(d, p, data)]
    ELSE [ok |-> FALSE, db |-> d]

(***************************************************************************)
(* The facade.  env[n + 1] is the outcome of the next client call when n   *)
(* client calls have been made; `now` is datetime.now().                   *)
(***************************************************************************)
new_connection(d, env) ==
    IF env[1]
    THEN Outcome("none", RetObj(<<>>), <<>>, <<>>, <<TRUE>>, 1, d)
    ELSE LET l == __log_exception(5, CredRef, TRUE) IN
         IF l.raised
         THEN Outcome("AttributeError", RetNone, <<>>, <<>>, <<FALSE>>, 1, d)
         ELSE Outcome("none", RetCode(ERROR), l.lines, <<>>, <<FALSE>>, 1, d)

get(d, ref, env, n) ==
    IF env[n + 1]
    THEN Outcome("none", RetObj(ClientRead(d, ref)), <<>>, <<>>, <<TRUE>>, n + 1, d)
    ELSE LET l1 == __log_exception(3, ref, FALSE) IN
         IF l1.raised
         THEN Outcome("AttributeError", RetNone, <<>>, <<>>, <<FALSE>>, n + 1, d)
         ELSE IF env[n + 2]
              THEN Outcome("none", RetObj(ClientRead(d, ref)), l1.lines, Slept, <<FALSE, TRUE>>, n + 2, d)
              ELSE LET l2 == __log_exception(3, ref, TRUE) IN
                   IF l2.raised
                   THEN Outcome("AttributeError", RetNone, l1.lines, Slept, <<FALSE, FALSE>>, n + 2, d)
                   ELSE Outcome("none", RetCode(ERROR), l1.lines \o l2.lines, Slept, <<FALSE, FALSE>>, n + 2, d)

\* a path test that takes every path under the history collection
IsHistoryDocPath_AnyDepth(p) == p[1] = "history"

IsHistoryDocPath(p) == Len(p) = 2 /\ p[1] = "history"

\* returns whether it completed without raising, the store, the client calls made
_update_last_edit(d, ref, env, n, now) ==
    IF ~HasPath(ref)
    THEN [ok |-> FALSE, db |-> d, remote |-> n]
    ELSE IF IsHistoryDocPath(ref.path)
         THEN LET u == ClientUpdate(d, ref.path, [last_edit |-> now], env[n + 1])
              IN  [ok |-> u.ok, db |-> u.db, remote |-> n + 1]
         ELSE [ok |-> TRUE, db |-> d, remote |-> n]

\* one pass through the try body of set: doc_ref.set(merge=True), _update_last_edit
SetAttempt(d, ref, data, env, n, now) ==
    IF ~env[n + 1]
    THEN [ok |-> FALSE, db |-> d, remote |-> n + 1]
    ELSE _update_last_edit(DbSet(d, ref.path, data), ref, env, n + 1, now)

\* one pass through the try body of update: doc_ref.update, _update_last_edit
UpdateAttempt(d, ref, data, env, n, now) ==
    LET u == ClientUpdate(d, ref.path, data, env[n + 1]) IN
    IF ~u.ok
    THEN [ok |-> FALSE, db |-> d, remote |-> n + 1]
    ELSE _update_last_edit(u.db, ref, env, n + 1, now)

set(d, ref, data, env, n, now) ==
    LET a1 == SetAttempt(d, ref, data, env, n, now) IN
    IF a1.ok
    THEN Outcome("none", RetCode(SUCCESS), <<>>, <<>>, <<TRUE>>, a1.remote, a1.db)
    ELSE LET l1 == __log_exception(4, ref, FALSE) IN
         IF l1.raised
         THEN Outcome("AttributeError", RetNone, <<>>, <<>>, <<FALSE>>, a1.remote, a1.db)
         ELSE LET a2 == SetAttempt(a1.db, ref, data, env, a1.remote, now) IN
              IF a2.ok
              THEN Outcome("none", RetCode(SUCCESS), l1.lines, Slept, <<FALSE, TRUE>>, a2.remote, a2.db)
              ELSE LET l2 == __log_exception(4, ref, TRUE) IN
                   IF l2.raised
                   THEN Outcome("AttributeError", RetNone, l1.lines, Slept, <<FALSE, FALSE>>, a2.remote, a2.db)
                   ELSE Outcome("none", RetCode(ERROR), l1.lines \o l2.lines, Slept, <<FALSE, FALSE>>,
                                a2.remote, a2.db)

update(d, ref, data, env, n, now) ==
    LET a1 == UpdateAttempt(d, ref, data, env, n, now) IN
    IF a1.ok
    THEN Outcome("none", RetCode(SUCCESS), <<>>, <<>>, <<TRUE>>, a1.remote, a1.db)
    ELSE LET l1 == __log_exception(2, ref, FALSE) IN
         IF l1.raised
         THEN Outcome("AttributeError", RetNone, <<>>, <<>>, <<FALSE>>, a1.remote, a1.db)
         ELSE LET a2 == UpdateAttempt(a1.db, ref, data, env, a1.remote, now) IN
              IF a2.ok
              THEN Outcome("none", RetCode(SUCCESS), l1.lines, Slept, <<FALSE, TRUE>>, a2.remote, a2.db)
              ELSE LET l2 == __log_exception(2, ref, TRUE) IN
                   IF l2.raised
                   THEN Outcome("AttributeError", RetNone, l1.lines, Slept, <<FALSE, FALSE>>, a2.remote, a2.db)
                   ELSE Outcome("none", RetCode(ERROR), l1.lines \o l2.lines, Slept, <<FALSE, FALSE>>,
                                a2.remote, a2.db)

stream(d, ref, env, n) ==
    IF env[n + 1]
    THEN Outcome("none", RetObj(ClientRead(d, ref)), <<>>, <<>>, <<TRUE>>, n + 1, d)
    ELSE LET l1 == __log_exception(1, ref, FALSE) IN
         IF l1.raised
         THEN Outcome("AttributeError", RetNone, <<>>, <<>>, <<FALSE>>, n + 1, d)
         ELSE IF env[n + 2]
              THEN Outcome("none", RetObj(ClientRead(d, ref)), l1.lines, Slept, <<FALSE, TRUE>>, n + 2, d)
              ELSE LET l2 == __log_exception(1, ref, TRUE) IN
                   IF l2.raised
                   THEN Outcome("AttributeError", RetNone, l1.lines, Slept, <<FALSE, FALSE>>, n + 2, d)
                   ELSE Outcome("none", RetCode(ERROR), l1.lines \o l2.lines, Slept, <<FALSE, FALSE>>, n + 2, d)

(***************************************************************************)
(* Specification of the facade: a caller invokes the five operations on    *)
(* document references, collection/query objects and a credentials path,   *)
(* against a client that may fail any of its calls.                        *)
(***************************************************************************)
Oracle(k) == {env \in [1..k -> BOOLEAN] : Cardinality({i \in 1..k : ~env[i]}) <= MaxFaults}

DocRefs == {DocRef(p) : p \in HistoryPaths \cup {<<"other", 1>>, <<"history", 1, "sub", 1>>}}
QueryRefs == {QueryRef(c, "", "", 0) : c \in {"history", "other"}}
FacadePayloads == {[test_field |-> "x"]}

\* answers[k]: whether the client lets the k-th attempt of the invocation succeed
Invocation(op, ref, data, answers, o) ==
    [op |-> op, ref |-> ref, data |-> data, answers |-> answers, exc |-> o.exc, ret |-> o.ret,
     logs |-> o.logs, sleeps |-> o.sleeps, tries |-> o.tries, remote |-> o.remote]

NoInvocation ==
    Invocation("none", CredRef, EmptyDoc, <<>>,
               Outcome("none", RetNone, <<>>, <<>>, <<>>, 0, EmptyDb))

BatcherIdle ==
    [op |-> "none", exc |-> "none", ret |-> RetNone, forwarded |-> FALSE, commits |-> 0,
     retry |-> FALSE, answers |-> <<>>, before |-> 0]

\* the result of get_history_doc_refs: the lists of matches, or ERROR, or an exception
NoRefs == [f \in {} |-> <<>>]

Lookup(exc, isError, refs, logs, sleeps, remote) ==
    [exc |-> exc, isError |-> isError, refs |-> refs, logs |-> logs, sleeps |-> sleeps,
     remote |-> remote]

\* the clients that may be inside set_history_doc_refs at the same time; pc is
\* "idle" (not calling), "start", "looked" (the lookup has returned) or "done"
Clients == {1, 2}
InCall(pc, lk, exc, ret, target) ==
    [pc |-> pc, lk |-> lk, exc |-> exc, ret |-> ret, target |-> target]
NoLookup == Lookup("none", FALSE, NoRefs, <<>>, <<>>, 0)
NoClients == [c \in Clients |-> InCall("idle", NoLookup, "none", RetNone, <<>>)]

\* the documents the batch writes to, and the empty batch
BatchPaths == {<<HISTORY_COLLECTION_PATH, 1>>}
BatchRefs == {DocRef(p) : p \in BatchPaths}
BatchData == [test_field |-> "x"]
NoWrites == [pre |-> "any", post |-> "keep", deleted |-> FALSE]
NoPending == [p \in BatchPaths |-> NoWrites]

Init ==
    /\ db = EmptyDb
    /\ calls = 0
    /\ last = NoInvocation
    /\ total_writes = 0
    /\ write_pbs = 0
    /\ pending = NoPending
    /\ inflight = NoClients
    /\ blast = BatcherIdle

Invoke(op, ref, data, answers, o) ==
    /\ calls < MaxCalls
    /\ calls' = calls + 1
    /\ db' = o.db
    /\ last' = Invocation(op, ref, data, answers, o)
    /\ UNCHANGED <<total_writes, write_pbs, pending, blast, inflight>>

NewConnection(env) ==
    Invoke("new_connection", CredRef, EmptyDoc, <<env[1]>>, new_connection(db, env))

Get(ref, env) ==
    Invoke("get", ref, EmptyDoc, <<env[1], env[2]>>, get(db, ref, env, 0))

Set(ref, data, env) ==
    LET a1 == SetAttempt(db, ref, data, env, 0, calls + 1)
        a2 == SetAttempt(a1.db, ref, data, env, a1.remote, calls + 1)
    IN  Invoke("set", ref, data, <<a1.ok, a2.ok>>, set(db, ref, data, env, 0, calls + 1))

Update(ref, data, env) ==
    LET a1 == UpdateAttempt(db, ref, data, env, 0, calls + 1)
        a2 == UpdateAttempt(a1.db, ref, data, env, a1.remote, calls + 1)
    IN  Invoke("update", ref, data, <<a1.ok, a2.ok>>, update(db, ref, data, env, 0, calls + 1))

Stream(ref, env) ==
    Invoke("stream", ref, EmptyDoc, <<env[1], env[2]>>, stream(db, ref, env, 0))

Next ==
    \/ \E env \in Oracle(1) : NewConnection(env)
    \/ \E ref \in DocRefs \cup QueryRefs, env \in Oracle(2) : Get(ref, env)
    \/ \E ref \in DocRefs, data \in FacadePayloads, env \in Oracle(4) : Set(ref, data, env)
    \/ \E ref \in DocRefs, data \in FacadePayloads, env \in Oracle(4) : Update(ref, data, env)
    \/ \E ref \in QueryRefs, env \in Oracle(2) : Stream(ref, env)

Spec == Init /\ [][Next]_vars

(***************************************************************************)
(* The history collection.  dealroom_urlextract.extract canonicizes a URL  *)
(* ("www.a.com" and "a.com" are the same site) and raises on a string that *)
(* is not url-like.  A dealroom_id arrives as an int or as a string:       *)
(* IntVal(n), StrVal(n) is the string spelling n, StrJunk a string that    *)
(* int() refuses.                                                          *)
(***************************************************************************)
extract(u) ==
    CASE u = "a.com" -> [ok |-> TRUE, url |-> "a.com"]
      [] u = "www.a.com" -> [ok |-> TRUE, url |-> "a.com"]
      [] u = "b.com" -> [ok |-> TRUE, url |-> "b.com"]
      [] OTHER -> [ok |-> FALSE, url |-> ""]

\* a conversion that leaves the identifier as it was given
ToInt_Unconverted(v) == v

\* int(v)
ToInt(v) == IntVal(v.n)

\* finalurl_or_dealroomid: None, a numeric string (str(key).isnumeric()), or another string
KeyNone == [none |-> TRUE, numeric |-> FALSE, n |-> 0, s |-> ""]
KeyId(n) == [none |-> FALSE, numeric |-> TRUE, n |-> n, s |-> ""]
KeyUrl(u) == [none |-> FALSE, numeric |-> FALSE, n |-> 0, s |-> u]

PlainError == <<[code |-> 0, retried |-> FALSE]>>

get_history_doc_refs(d, key, env, n) ==
    IF key.numeric
    THEN LET s == stream(d, QueryRef(HISTORY_COLLECTION_PATH, "dealroom_id", "", key.n), env, n) IN
         IF s.exc # "none" THEN Lookup(s.exc, FALSE, NoRefs, s.logs, s.sleeps, s.remote)
         ELSE IF IsError(s.ret)
              THEN Lookup("none", TRUE, NoRefs, s.logs \o PlainError, s.sleeps, s.remote)
              ELSE Lookup("none", FALSE, [f \in {"dealroom_id"} |-> s.ret.docs], s.logs,
                          s.sleeps, s.remote)
    ELSE LET website_url == extract(key.s) IN
         IF ~website_url.ok THEN Lookup("none", TRUE, NoRefs, PlainError, <<>>, n)
         ELSE LET s1 == stream(d, QueryRef(HISTORY_COLLECTION_PATH, "final_url", website_url.url, 0),
                               env, n) IN
              IF s1.exc # "none" THEN Lookup(s1.exc, FALSE, NoRefs, s1.logs, s1.sleeps, s1.remote)
              ELSE IF IsError(s1.ret)
                   THEN Lookup("none", TRUE, NoRefs, s1.logs \o PlainError, s1.sleeps, s1.remote)
                   ELSE LET s2 == stream(d, QueryRef(HISTORY_COLLECTION_PATH,
                                                     "current_related_urls", website_url.url, 0),
                                         env, s1.remote) IN
                        IF s2.exc # "none"
                        THEN Lookup(s2.exc, FALSE, NoRefs, s1.logs \o s2.logs,
                                    s1.sleeps \o s2.sleeps, s2.remote)
                        ELSE IF IsError(s2.ret)
                             THEN Lookup("none", TRUE, NoRefs, s1.logs \o s2.logs \o PlainError,
                                         s1.sleeps \o s2.sleeps, s2.remote)
                             ELSE Lookup("none", FALSE,
                                         [f \in {"final_url", "current_related_urls"} |->
                                             IF f = "final_url" THEN s1.ret.docs ELSE s2.ret.docs],
                                         s1.logs \o s2.logs, s1.sleeps \o s2.sleeps, s2.remote)

\* a _validate_dealroomid without the lower bound on the identifier
_validate_dealroomid_no_lower_bound(dealroom_id) ==
    IF ~dealroom_id.num THEN "ValueError" ELSE "none"

\* the validators return the exception they raise, "none" when they return
_validate_dealroomid(dealroom_id) ==
    IF ~dealroom_id.num \/ dealroom_id.n < -2 THEN "ValueError" ELSE "none"

_validate_final_url(final_url) ==
    IF final_url = "" THEN "none"
    ELSE IF extract(final_url).ok THEN "none" ELSE "ValueError"

_validate_new_history_doc_payload(payload) ==
    IF "final_url" \notin DOMAIN payload THEN "KeyError"
    ELSE IF _validate_final_url(payload.final_url) # "none" THEN "ValueError"
    ELSE IF "dealroom_id" \notin DOMAIN payload THEN "KeyError"
    ELSE _validate_dealroomid(payload.dealroom_id)

_validate_update_history_doc_payload(payload) ==
    IF "final_url" \in DOMAIN payload /\ _validate_final_url(payload.final_url) # "none"
    THEN "ValueError"
    ELSE IF "dealroom_id" \in DOMAIN payload
         THEN _validate_dealroomid(payload.dealroom_id)
         ELSE "none"

\* defaults that mark the new document as a deleted entity
NewDocDefaults_Deleted == [dealroom_id |-> IntVal(_DELETED_DEALROOM_ENTITY_ID), final_url |-> ""]

\* the default values a new document gets
NewDocDefaults == [dealroom_id |-> IntVal(_NOT_IN_DEALROOM_ENTITY_ID), final_url |-> ""]

\* history_col.document(): a reference with a fresh auto-generated id
FreeIds(d) == {i \in DocIds : <<HISTORY_COLLECTION_PATH, i>> \notin DOMAIN d}
NewDocument(d) ==
    DocRef(<<HISTORY_COLLECTION_PATH, CHOOSE i \in FreeIds(d) : \A j \in FreeIds(d) : i <= j>>)

\* history_refs[key_found][0]
MatchedDocument(history_refs, key_found) == DocRef(history_refs[key_found][1])

\* a key_found that lets current_related_urls decide before final_url
KeyFound_RelatedFirst(history_refs) ==
    IF "dealroom_id" \in DOMAIN history_refs THEN "dealroom_id"
    ELSE IF "current_related_urls" \in DOMAIN history_refs
            /\ Len(history_refs.current_related_urls) > 0
         THEN "current_related_urls"
    ELSE IF "final_url" \in DOMAIN history_refs /\ Len(history_refs.final_url) > 0
         THEN "final_url"
    ELSE ""

\* which list of the lookup decides, "" when none does
KeyFound(history_refs) ==
    IF "dealroom_id" \in DOMAIN history_refs THEN "dealroom_id"
    ELSE IF "final_url" \in DOMAIN history_refs /\ Len(history_refs.final_url) > 0
         THEN "final_url"
    ELSE IF "current_related_urls" \in DOMAIN history_refs
            /\ Len(history_refs.current_related_urls) > 0
         THEN "current_related_urls"
    ELSE ""

\* a count that takes any non-empty list of matches for a single match
CountHistoryRefs_AnyIsOne(history_refs) ==
    IF KeyFound(history_refs) = "" THEN 0
    ELSE IF Len(history_refs[KeyFound(history_refs)]) = 0 THEN 0 ELSE 1

\* a count that adds the current_related_urls matches to the final_url matches
CountHistoryRefs_BothLists(history_refs) ==
    IF "dealroom_id" \in DOMAIN history_refs THEN Len(history_refs.dealroom_id)
    ELSE IF "final_url" \in DOMAIN history_refs
         THEN Len(history_refs.final_url) + Len(history_refs.current_related_urls)
         ELSE 0

CountHistoryRefs(history_refs) ==
    IF KeyFound(history_refs) = "" THEN 0 ELSE Len(history_refs[KeyFound(history_refs)])

\* the outcome of set_history_doc_refs: matched is count_history_refs (-1 when the
\* lookup did not complete), target the path written to (<<>> when none)
Upserted(exc, ret, matched, target, logs, sleeps, remote, d) ==
    [exc |-> exc, ret |-> ret, matched |-> matched, target |-> target, logs |-> logs,
     sleeps |-> sleeps, remote |-> remote, db |-> d]

\* lines 414-426: the int() conversion, the facade set and the returned status
WriteHistoryDoc(d, history_ref, _payload, status, matched, lk, env, now) ==
    IF "dealroom_id" \in DOMAIN _payload /\ ~_payload.dealroom_id.num
    THEN Upserted("ValueError", RetNone, matched, <<>>, lk.logs, lk.sleeps, lk.remote, d)
    ELSE LET data == IF "dealroom_id" \in DOMAIN _payload
                     THEN [_payload EXCEPT !.dealroom_id = ToInt(@)]
                     ELSE _payload
             res == set(d, history_ref, data, env, lk.remote, now)
         IN  IF res.exc # "none"
             THEN Upserted(res.exc, RetNone, matched, history_ref.path, lk.logs \o res.logs,
                           lk.sleeps \o res.sleeps, res.remote, res.db)
             ELSE IF IsError(res.ret)
                  THEN Upserted("none", RetCode(ERROR), matched, history_ref.path,
                                lk.logs \o res.logs \o PlainError, lk.sleeps \o res.sleeps,
                                res.remote, res.db)
                  ELSE Upserted("none", RetCode(status), matched, history_ref.path,
                                lk.logs \o res.logs, lk.sleeps \o res.sleeps, res.remote, res.db)

\* line 364: history_refs, {} when no key is given
LookupHistoryRefs(d, key, env) ==
    IF ~key.none
    THEN get_history_doc_refs(d, key, env, 0)
    ELSE Lookup("none", FALSE, NoRefs, <<>>, <<>>, 0)

\* lines 366-426: what set_history_doc_refs does with the result lk of the lookup
SetHistoryDoc(d, payload, lk, env, now) ==
    IF lk.exc # "none"
    THEN Upserted(lk.exc, RetNone, -1, <<>>, lk.logs, lk.sleeps, lk.remote, d)
    ELSE IF lk.isError
    THEN Upserted("none", RetCode(ERROR), -1, <<>>, lk.logs, lk.sleeps, lk.remote, d)
    ELSE LET count_history_refs == CountHistoryRefs(lk.refs) IN
         IF count_history_refs = 0
         THEN LET _payload == Merge(NewDocDefaults, payload) IN
              IF _validate_new_history_doc_payload(_payload) # "none"
              THEN Upserted("none", RetCode(ERROR), 0, <<>>, lk.logs \o PlainError, lk.sleeps,
                            lk.remote, d)
              ELSE WriteHistoryDoc(d, NewDocument(d), _payload, CREATED, 0, lk, env, now)
         ELSE IF count_history_refs = 1
         THEN IF _validate_update_history_doc_payload(payload) # "none"
              THEN Upserted("none", RetCode(ERROR), 1, <<>>, lk.logs \o PlainError, lk.sleeps,
                            lk.remote, d)
              ELSE WriteHistoryDoc(d, MatchedDocument(lk.refs, KeyFound(lk.refs)), payload,
                                   UPDATED, 1, lk, env, now)
         ELSE Upserted("none", RetCode(ERROR), count_history_refs, <<>>, lk.logs \o PlainError,
                       lk.sleeps, lk.remote, d)

set_history_doc_refs(d, payload, key, env, now) ==
    SetHistoryDoc(d, payload, LookupHistoryRefs(d, key, env), env, now)

(***************************************************************************)
(* Specification of the upsert: set_history_doc_refs is called with a      *)
(* payload and a key against a history collection that already holds some  *)
(* documents (none, one, two distinct, two that both match "a.com" and id  *)
(* 1, ones that list "a.com" among their current_related_urls).            *)
(***************************************************************************)
H(i) == <<HISTORY_COLLECTION_PATH, i>>
DocA1 == [final_url |-> "a.com", dealroom_id |-> IntVal(1)]
DocB2 == [final_url |-> "b.com", dealroom_id |-> IntVal(2)]
DocB2RelatedA == [final_url |-> "b.com", dealroom_id |-> IntVal(2), current_related_urls |-> {"a.com"}]

InitialCollections ==
    { EmptyDb,
      H(1) :> DocA1,
      H(1) :> DocA1 @@ H(2) :> DocB2,
      H(1) :> DocA1 @@ H(2) :> DocA1,
      H(1) :> DocB2RelatedA,
      H(1) :> DocA1 @@ H(2) :> DocB2RelatedA }

UrlInputs == {"a.com", "www.a.com", "bad"}
IdInputs == {StrVal(1), StrVal(-2), StrJunk, IntVal(-3)}
Payloads ==
    {EmptyDoc, [test_field |-> "x"], [final_url |-> "a.com", dealroom_id |-> IntVal(2)]}
        \cup {[final_url |-> u] : u \in UrlInputs}
        \cup {[dealroom_id |-> i] : i \in IdInputs}
Keys == {KeyNone, KeyUrl("a.com"), KeyUrl("www.a.com"), KeyUrl("bad"), KeyId(1)}

Upsert(payload, key, before, now, o) ==
    [op |-> "set_history_doc_refs", payload |-> payload, key |-> key, before |-> before,
     now |-> now, exc |-> o.exc, ret |-> o.ret, matched |-> o.matched, target |-> o.target,
     logs |-> o.logs, sleeps |-> o.sleeps, remote |-> o.remote]

NoUpsert ==
    [Upsert(EmptyDoc, KeyNone, EmptyDb, 0,
            Upserted("none", RetNone, -1, <<>>, <<>>, <<>>, 0, EmptyDb)) EXCEPT !.op = "none"]

HistoryInit ==
    /\ db \in InitialCollections
    /\ calls = 0
    /\ last = NoUpsert
    /\ total_writes = 0
    /\ write_pbs = 0
    /\ pending = NoPending
    /\ inflight = NoClients
    /\ blast = BatcherIdle

SetHistoryDocRefs(payload, key, env) ==
    LET o == set_history_doc_refs(db, payload, key, env, calls + 1) IN
    /\ calls < MaxUpserts
    /\ FreeIds(db) # {}
    /\ calls' = calls + 1
    /\ db' = o.db
    /\ last' = Upsert(payload, key, db, calls + 1, o)
    /\ UNCHANGED <<total_writes, write_pbs, pending, blast, inflight>>

HistoryNext ==
    \E payload \in Payloads, key \in Keys, env \in Oracle(6) : SetHistoryDocRefs(payload, key, env)

HistorySpec == HistoryInit /\ [][HistoryNext]_vars

(***************************************************************************)
(* Specification of a repeated upsert: after a set_history_doc_refs call   *)
(* the caller makes the same call, with the same key and payload, again.   *)
(***************************************************************************)
\* the second call and its result, with what the first call returned and wrote
Repeated(first, before, now, o) ==
    [op |-> "set_history_doc_refs_again", payload |-> first.payload, key |-> first.key,
     before |-> before, now |-> now, exc |-> o.exc, ret |-> o.ret, matched |-> o.matched,
     target |-> o.target, logs |-> o.logs, sleeps |-> o.sleeps, remote |-> o.remote,
     first |-> [exc |-> first.exc, ret |-> first.ret, target |-> first.target]]

SetHistoryDocRefsAgain(env) ==
    LET o == set_history_doc_refs(db, last.payload, last.key, env, calls + 1) IN
    /\ last.op = "set_history_doc_refs"
    /\ FreeIds(db) # {}
    /\ calls' = calls + 1
    /\ db' = o.db
    /\ last' = Repeated(last, db, calls + 1, o)
    /\ UNCHANGED <<total_writes, write_pbs, pending, blast, inflight>>

RepeatNext ==
    \/ \E payload \in Payloads, key \in Keys, env \in Oracle(6) :
            SetHistoryDocRefs(payload, key, env)
    \/ \E env \in Oracle(6) : SetHistoryDocRefsAgain(env)

RepeatSpec == HistoryInit /\ [][RepeatNext]_vars

(***************************************************************************)
(* Two clients inside set_history_doc_refs at the same time, on the same   *)
(* collection.  The function holds no lock and opens no transaction: the   *)
(* lookup of line 364 and the write of line 417 are separate requests to   *)
(* the service, and requests of other clients may be served in between.    *)
(* Each request is atomic at the service; a client's call is therefore two *)
(* steps, the lookup and then everything that follows it.                  *)
(***************************************************************************)
ConcurrentKey == KeyUrl("a.com")
ConcurrentPayload == [final_url |-> "a.com"]
ConcurrentCollections == {EmptyDb, H(1) :> DocB2}

ConcurrentInit ==
    /\ db \in ConcurrentCollections
    /\ calls = 0
    /\ last = NoUpsert
    /\ total_writes = 0
    /\ write_pbs = 0
    /\ pending = NoPending
    /\ blast = BatcherIdle
    /\ inflight = [c \in Clients |-> InCall("start", NoLookup, "none", RetNone, <<>>)]

\* line 364 of client c: the lookup reads the collection as it is now
ClientLookup(c, env) ==
    /\ inflight[c].pc = "start"
    /\ inflight' = [inflight EXCEPT ![c] =
                       InCall("looked", LookupHistoryRefs(db, ConcurrentKey, env),
                              "none", RetNone, <<>>)]
    /\ UNCHANGED <<db, calls, last, total_writes, write_pbs, pending, blast>>

\* lines 366-426 of client c: the decision rests on the lookup made earlier, the
\* write reaches the collection as it is now
ClientWrite(c, env) ==
    LET o == SetHistoryDoc(db, ConcurrentPayload, inflight[c].lk, env, calls + 1) IN
    /\ inflight[c].pc = "looked"
    /\ FreeIds(db) # {}
    /\ calls' = calls + 1
    /\ db' = o.db
    /\ inflight' = [inflight EXCEPT ![c] = InCall("done", @.lk, o.exc, o.ret, o.target)]
    /\ UNCHANGED <<last, total_writes, write_pbs, pending, blast>>

ConcurrentNext ==
    \/ \E c \in Clients, env \in Oracle(6) : ClientLookup(c, env)
    \/ \E c \in Clients, env \in Oracle(6) : ClientWrite(c, env)

ConcurrentSpec == ConcurrentInit /\ [][ConcurrentNext]_vars

(***************************************************************************)
(* get_all: the base query is fetched page by page, each page being        *)
(* stream(base_query.start_after(last document of the previous page)       *)
(* .limit(page_size)), until a page comes back shorter than page_size.     *)
(***************************************************************************)
\* the documents query.start_after(start_at).limit(page_size) yields, given those
\* of the base query in order; start_at is <<>> for None
PageOf(docs, start_at, page_size) ==
    LET first == IF start_at = <<>> THEN 1
                 ELSE 1 + (CHOOSE k \in 1..Len(docs) : docs[k] = start_at)
        n == IF Len(docs) - first + 1 < page_size THEN Len(docs) - first + 1 ELSE page_size
    IN  [k \in 1..n |-> docs[first + k - 1]]

Paged(exc, ret, pages, remote) == [exc |-> exc, ret |-> ret, pages |-> pages, remote |-> remote]

RECURSIVE _get_all(_, _, _, _, _, _, _, _)
\* _get_all(res, start_at); n client calls and `pages` page fetches have been made
_get_all(d, base_query, page_size, res, start_at, env, n, pages) ==
    LET docs == stream(d, base_query, env, n) IN
    IF docs.exc # "none" THEN Paged(docs.exc, RetNone, pages + 1, docs.remote)
    ELSE IF IsError(docs.ret) THEN Paged("none", RetCode(ERROR), pages + 1, docs.remote)
    ELSE LET results == PageOf(docs.ret.docs, start_at, page_size)
             sum_results == res \o results
             has_more_results == Len(results) >= page_size
         IN  IF has_more_results
             THEN _get_all(d, base_query, page_size, sum_results, results[Len(results)],
                           env, docs.remote, pages + 1)
             ELSE Paged("none", RetObj(sum_results), pages + 1, docs.remote)

get_all(d, base_query, page_size, env) == _get_all(d, base_query, page_size, <<>>, <<>>, env, 0, 0)

(***************************************************************************)
(* Specification of get_all: it is called with a page size on a query over *)
(* a history collection of zero to MaxDocs documents.                      *)
(***************************************************************************)
PagedCollections == {[p \in {H(i) : i \in S} |-> DocA1] : S \in SUBSET DocIds}
BaseQueries == {QueryRef(HISTORY_COLLECTION_PATH, "", "", 0),
                QueryRef(HISTORY_COLLECTION_PATH, "dealroom_id", "", 1)}
PageSizes == 1..(MaxDocs + 1)

\* failed: whether one of the client calls the invocation made has failed
Paging(base_query, page_size, failed, o) ==
    [op |-> "get_all", ref |-> base_query, page_size |-> page_size, failed |-> failed,
     exc |-> o.exc, ret |-> o.ret, pages |-> o.pages, remote |-> o.remote]

NoPaging ==
    [Paging(CredRef, 0, FALSE, Paged("none", RetNone, 0, 0)) EXCEPT !.op = "none"]

PagingInit ==
    /\ db \in PagedCollections
    /\ calls = 0
    /\ last = NoPaging
    /\ total_writes = 0
    /\ write_pbs = 0
    /\ pending = NoPending
    /\ inflight = NoClients
    /\ blast = BatcherIdle

GetAll(base_query, page_size, env) ==
    LET o == get_all(db, base_query, page_size, env) IN
    /\ calls < MaxCalls
    /\ calls' = calls + 1
    /\ last' = Paging(base_query, page_size, \E i \in 1..o.remote : ~env[i], o)
    /\ UNCHANGED <<db, total_writes, write_pbs, pending, blast, inflight>>

PagingNext ==
    \E base_query \in BaseQueries, page_size \in PageSizes, env \in Oracle(2 * (MaxDocs + 1)) :
        GetAll(base_query, page_size, env)

PagingSpec == PagingInit /\ [][PagingNext]_vars

(***************************************************************************)
(* Properties of the facade, stated for Spec.                              *)
(***************************************************************************)
RetriedOps == {"get", "set", "update", "stream"}
AllFail(answers) == \A k \in DOMAIN answers : ~answers[k]

\* C1: for get, set, update and stream, when the client fails the first attempt
\* and fails the retry too, the call returns ERROR and exactly two error lines
\* are logged, the first unmarked and the second marked as retried.
C1_FailsTwiceReturnsErrorWithTwoLogLines ==
    (last.op \in RetriedOps /\ last.answers = <<FALSE, FALSE>>) =>
        /\ last.exc = "none"
        /\ IsError(last.ret)
        /\ Len(last.logs) = 2
        /\ ~last.logs[1].retried
        /\ last.logs[2].retried

\* C2: for get, set, update and stream, when the client fails the first attempt
\* and lets the second succeed, the call returns the success value (the client's
\* result for get/stream, SUCCESS for set/update) after exactly one sleep; when
\* the first attempt succeeds there is no sleep.
C2_FailsOnceReturnsSuccessAfterOneSleep ==
    last.op \in RetriedOps =>
        /\ last.answers = <<FALSE, TRUE>> =>
              /\ last.exc = "none"
              /\ IF last.op \in {"get", "stream"}
                 THEN last.ret = RetObj(ClientRead(db, last.ref))
                 ELSE last.ret = RetCode(SUCCESS)
              /\ Len(last.sleeps) = 1
        /\ last.answers[1] => Len(last.sleeps) = 0

\* C3: no invocation of new_connection, get, set, update or stream raises to
\* its caller, whatever the client calls do, and a permanent failure (every
\* attempt fails) is returned as ERROR.
C3_NeverRaisesPermanentFailureIsError ==
    last.op # "none" =>
        /\ last.exc = "none"
        /\ AllFail(last.answers) => IsError(last.ret)

\* C4: new_connection, get, set, update and stream all follow the two-attempt
\* policy: when the first attempt fails the operation sleeps once and attempts
\* the client call exactly once more; there is never a third attempt.
C4_FirstFailureSleepsOnceAndRetriesOnce ==
    last.op # "none" =>
        /\ Len(last.tries) <= 2
        /\ ~last.answers[1] => (Len(last.sleeps) = 1 /\ Len(last.tries) = 2)

(***************************************************************************)
(* The Batcher: a WriteBatch whose write methods are wrapped by            *)
(* __count_write.  write_pbs counts the writes the underlying batch holds; *)
(* the underlying commit clears them when it succeeds and keeps them when  *)
(* it raises.                                                              *)
(***************************************************************************)
\* a count_write_wrapper that forwards the write before it checks the limit
count_write_wrapper_check_after(tw, pbs, accepted) ==
    LET counted == tw + 1 IN
    IF ~accepted
    THEN [exc |-> "ClientError", forwarded |-> TRUE, total_writes |-> counted,
          write_pbs |-> pbs]
    ELSE IF counted > MAX_WRITES_PER_BATCH
         THEN [exc |-> "InvalidArgument", forwarded |-> TRUE, total_writes |-> counted,
               write_pbs |-> pbs + 1]
         ELSE [exc |-> "none", forwarded |-> TRUE, total_writes |-> counted,
               write_pbs |-> pbs + 1]

\* a count_write_wrapper that starts counting afresh when it rejects a write
count_write_wrapper_reset_on_reject(tw, pbs, accepted) ==
    LET counted == tw + 1 IN
    IF counted > MAX_WRITES_PER_BATCH
    THEN [exc |-> "InvalidArgument", forwarded |-> FALSE, total_writes |-> 0,
          write_pbs |-> pbs]
    ELSE IF accepted
         THEN [exc |-> "none", forwarded |-> TRUE, total_writes |-> counted,
               write_pbs |-> pbs + 1]
         ELSE [exc |-> "ClientError", forwarded |-> TRUE, total_writes |-> counted,
               write_pbs |-> pbs]

\* count_write_wrapper; accepted: whether the wrapped WriteBatch method takes the write
count_write_wrapper(tw, pbs, accepted) ==
    LET counted == tw + 1 IN
    IF counted > MAX_WRITES_PER_BATCH
    THEN [exc |-> "InvalidArgument", forwarded |-> FALSE, total_writes |-> counted,
          write_pbs |-> pbs]
    ELSE IF accepted
         THEN [exc |-> "none", forwarded |-> TRUE, total_writes |-> counted,
               write_pbs |-> pbs + 1]
         ELSE [exc |-> "ClientError", forwarded |-> TRUE, total_writes |-> counted,
               write_pbs |-> pbs]

\* a commit that gives up after the first failed attempt
commit_no_retry(tw, pbs, retry, env, n) ==
    IF env[n + 1]
    THEN [exc |-> "none", ret |-> RetCode(SUCCESS), total_writes |-> 0, write_pbs |-> 0,
          commits |-> n + 1]
    ELSE [exc |-> "none", ret |-> RetCode(ERROR), total_writes |-> tw, write_pbs |-> pbs,
          commits |-> n + 1]

\* a commit that does not reset the counter when the retry is the attempt that succeeds
commit_retry_keeps_counter(tw, pbs, retry, env, n) ==
    IF env[n + 1]
    THEN [exc |-> "none", ret |-> RetCode(SUCCESS), total_writes |-> 0, write_pbs |-> 0,
          commits |-> n + 1]
    ELSE IF retry
         THEN IF env[n + 2]
              THEN [exc |-> "none", ret |-> RetCode(SUCCESS), total_writes |-> tw,
                    write_pbs |-> 0, commits |-> n + 2]
              ELSE [exc |-> "none", ret |-> RetCode(ERROR), total_writes |-> tw,
                    write_pbs |-> pbs, commits |-> n + 2]
         ELSE [exc |-> "none", ret |-> RetCode(ERROR), total_writes |-> tw, write_pbs |-> pbs,
               commits |-> n + 1]

RECURSIVE commit(_, _, _, _, _)
\* Batcher.commit; n underlying commits have been made, env[n + 1] is the next one's outcome
commit(tw, pbs, retry, env, n) ==
    IF env[n + 1]
    THEN [exc |-> "none", ret |-> RetCode(SUCCESS), total_writes |-> 0, write_pbs |-> 0,
          commits |-> n + 1]
    ELSE IF retry
         THEN commit(tw, pbs, FALSE, env, n + 1)
         ELSE [exc |-> "none", ret |-> RetCode(ERROR), total_writes |-> tw, write_pbs |-> pbs,
               commits |-> n + 1]

\* a forwarding in which update hands its write to the delete of the WriteBatch
Forwarded_UpdateAsDelete(op) == IF op = "update" THEN "delete" ELSE op

\* the WriteBatch method that each Batcher method hands its write to
Forwarded(op) == op

\* what the writes pending for one document do once one more is added: pre is
\* what the commit requires of the document ("exists" for update, "absent" for
\* create, "never" when no state of the document satisfies the writes), post
\* what the commit leaves ("merged" into the old fields, "fresh" with the data
\* alone, "absent"); deleted records that Batcher.delete was called
Batched(op, b) ==
    LET m == Forwarded(op) IN
    [pre |-> CASE m = "create" ->
                    (IF b.post = "keep" THEN (IF b.pre = "exists" THEN "never" ELSE "absent")
                     ELSE IF b.post = "absent" THEN b.pre ELSE "never")
               [] m = "update" ->
                    (IF b.post = "keep" THEN (IF b.pre = "absent" THEN "never" ELSE "exists")
                     ELSE IF b.post = "absent" THEN "never" ELSE b.pre)
               [] OTHER -> b.pre,
     post |-> CASE m = "set" ->
                    (IF b.post = "keep" THEN "merged"
                     ELSE IF b.post = "absent" THEN "fresh" ELSE b.post)
                [] m = "create" -> (IF b.post \in {"keep", "absent"} THEN "fresh" ELSE b.post)
                [] m = "update" -> (IF b.post = "keep" THEN "merged" ELSE b.post)
                [] OTHER -> "absent",
     deleted |-> b.deleted \/ op = "delete"]

\* whether the service can apply the pending writes to the store
Committable(d, pend) ==
    \A p \in DOMAIN pend :
        /\ pend[p].pre # "never"
        /\ pend[p].pre = "exists" => p \in DOMAIN d
        /\ pend[p].pre = "absent" => p \notin DOMAIN d

\* the store after the underlying commit has applied the pending writes
CommitStore(d, pend) ==
    LET gone == {p \in DOMAIN pend : pend[p].post = "absent"}
        made == {p \in DOMAIN pend : pend[p].post \in {"merged", "fresh"}}
    IN  [p \in ((DOMAIN d) \ gone) \cup made |->
            IF p \in made
            THEN (IF pend[p].post = "merged" /\ p \in DOMAIN d
                  THEN Merge(d[p], BatchData) ELSE BatchData)
            ELSE d[p]]

BatcherWrite(op, doc_ref, accepted) ==
    LET w == count_write_wrapper(total_writes, write_pbs, accepted) IN
    /\ total_writes < MAX_WRITES_PER_BATCH + MaxOverLimit
    /\ accepted \/ total_writes - write_pbs < MaxWriteFaults
    /\ total_writes' = w.total_writes
    /\ write_pbs' = w.write_pbs
    /\ pending' = IF w.write_pbs = write_pbs + 1
                  THEN [pending EXCEPT ![doc_ref.path] = Batched(op, @)]
                  ELSE pending
    /\ blast' = [op |-> op, exc |-> w.exc, ret |-> RetNone, forwarded |-> w.forwarded,
                 commits |-> 0, retry |-> FALSE, answers |-> <<>>, before |-> total_writes]
    /\ UNCHANGED <<db, calls, last, inflight>>

BatcherSet(doc_ref, accepted) == BatcherWrite("set", doc_ref, accepted)

BatcherCreate(doc_ref, accepted) == BatcherWrite("create", doc_ref, accepted)

BatcherDelete(doc_ref, accepted) == BatcherWrite("delete", doc_ref, accepted)

BatcherUpdate(doc_ref, accepted) == BatcherWrite("update", doc_ref, accepted)

\* the underlying commit can succeed only on writes the service can apply
BatcherCommit(retry, env) ==
    LET c == commit(total_writes, write_pbs, retry, env, 0)
        committed == c.write_pbs = 0 /\ c.ret = RetCode(SUCCESS)
    IN
    /\ (\E i \in 1..c.commits : env[i]) => Committable(db, pending)
    /\ total_writes' = c.total_writes
    /\ write_pbs' = c.write_pbs
    /\ db' = IF committed THEN CommitStore(db, pending) ELSE db
    /\ pending' = IF committed THEN NoPending ELSE pending
    /\ blast' = [op |-> "commit", exc |-> c.exc, ret |-> c.ret, forwarded |-> FALSE,
                 commits |-> c.commits, retry |-> retry, answers |-> env,
                 before |-> total_writes]
    /\ UNCHANGED <<calls, last, inflight>>

BatcherNext ==
    \/ \E doc_ref \in BatchRefs, accepted \in BOOLEAN : BatcherSet(doc_ref, accepted)
    \/ \E doc_ref \in BatchRefs, accepted \in BOOLEAN : BatcherCreate(doc_ref, accepted)
    \/ \E doc_ref \in BatchRefs, accepted \in BOOLEAN : BatcherDelete(doc_ref, accepted)
    \/ \E doc_ref \in BatchRefs, accepted \in BOOLEAN : BatcherUpdate(doc_ref, accepted)
    \/ \E retry \in BOOLEAN, env \in Oracle(2) : BatcherCommit(retry, env)

BatcherSpec == Init /\ [][BatcherNext]_vars

BatcherWriteOps == {"set", "create", "delete", "update"}

(***************************************************************************)
(* Specification of the library as a whole: one caller uses the facade,    *)
(* set_history_doc_refs and a Batcher on the same store, starting from an  *)
(* empty one.                                                              *)
(***************************************************************************)
MaxLibraryCalls == 1   \* facade and set_history_doc_refs calls of the caller
MaxBatched == 2        \* writes the caller counts into a batch before committing

LibraryRefs == BatchRefs \cup {QueryRef(HISTORY_COLLECTION_PATH, "", "", 0)}
LibraryPayloads == {[final_url |-> "a.com"]}
LibraryKeys == {KeyNone, KeyUrl("a.com")}

LibraryNext ==
    \/ \E env \in Oracle(1) : calls < MaxLibraryCalls /\ NewConnection(env)
    \/ \E ref \in LibraryRefs, env \in Oracle(2) : calls < MaxLibraryCalls /\ Get(ref, env)
    \/ \E ref \in BatchRefs, data \in FacadePayloads, env \in Oracle(4) :
            calls < MaxLibraryCalls /\ Set(ref, data, env)
    \/ \E ref \in BatchRefs, data \in FacadePayloads, env \in Oracle(4) :
            calls < MaxLibraryCalls /\ Update(ref, data, env)
    \/ \E ref \in LibraryRefs, env \in Oracle(2) : calls < MaxLibraryCalls /\ Stream(ref, env)
    \/ \E payload \in LibraryPayloads, key \in LibraryKeys, env \in Oracle(6) :
            SetHistoryDocRefs(payload, key, env)
    \/ \E doc_ref \in BatchRefs : total_writes < MaxBatched /\ BatcherSet(doc_ref, TRUE)
    \/ \E doc_ref \in BatchRefs : total_writes < MaxBatched /\ BatcherCreate(doc_ref, TRUE)
    \/ \E doc_ref \in BatchRefs : total_writes < MaxBatched /\ BatcherDelete(doc_ref, TRUE)
    \/ \E doc_ref \in BatchRefs : total_writes < MaxBatched /\ BatcherUpdate(doc_ref, TRUE)
    \/ \E retry \in BOOLEAN, env \in Oracle(2) : BatcherCommit(retry, env)

LibrarySpec == Init /\ [][LibraryNext]_vars


\* C5: the 501st write accumulated since the last successful commit is rejected
\* with InvalidArgument before it is forwarded to the underlying batch (and no
\* earlier write is rejected), so the underlying batch never holds more than
\* 500 pending writes.
C5_WritePastLimitRejectedBeforeForwarding ==
    /\ write_pbs <= MAX_WRITES_PER_BATCH
    /\ blast.op \in BatcherWriteOps =>
          /\ (blast.exc = "InvalidArgument") <=> (blast.before >= MAX_WRITES_PER_BATCH)
          /\ blast.exc = "InvalidArgument" => ~blast.forwarded /\ write_pbs <= blast.before

\* C5 witness: the 501st write of a batch has just been rejected, 500 are pending
C5_Witness ==
    /\ blast.op \in BatcherWriteOps
    /\ blast.before = MAX_WRITES_PER_BATCH
    /\ blast.exc = "InvalidArgument"
    /\ write_pbs = MAX_WRITES_PER_BATCH

\* C6: commit attempts the underlying commit and, if that fails, exactly once
\* more (not at all with retry=False); it returns SUCCESS if an attempt succeeds
\* and ERROR if every attempt fails, never raises, and makes at most two
\* underlying commits (one with retry=False).
C6_CommitRetriesExactlyOnce ==
    blast.op = "commit" =>
        /\ blast.exc = "none"
        /\ blast.commits <= 2
        /\ ~blast.retry => blast.commits = 1
        /\ blast.answers[1] => (blast.commits = 1 /\ blast.ret = RetCode(SUCCESS))
        /\ (~blast.answers[1] /\ blast.retry) =>
              /\ blast.commits = 2
              /\ blast.ret = IF blast.answers[2] THEN RetCode(SUCCESS) ELSE RetCode(ERROR)
        /\ (~blast.answers[1] /\ ~blast.retry) => blast.ret = RetCode(ERROR)

\* C6 witness: a commit whose first attempt failed and whose retry succeeded
C6_Witness ==
    /\ blast.op = "commit"
    /\ blast.answers = <<FALSE, TRUE>>
    /\ blast.retry
    /\ blast.commits = 2
    /\ blast.ret = RetCode(SUCCESS)

\* C7: commit resets the write counter to 0 exactly when a commit attempt
\* succeeds; when commit returns ERROR the counter keeps the value it had
\* before the call.
C7_CounterResetExactlyOnSuccessfulCommit ==
    blast.op = "commit" =>
        /\ blast.ret = RetCode(SUCCESS) => total_writes = 0
        /\ blast.ret = RetCode(ERROR) => total_writes = blast.before
        /\ blast.ret \in {RetCode(SUCCESS), RetCode(ERROR)}

\* C7 witness: a commit that failed twice on a batch holding counted writes
C7_Witness ==
    /\ blast.op = "commit"
    /\ blast.ret = RetCode(ERROR)
    /\ blast.commits = 2
    /\ blast.before > 0
    /\ total_writes = blast.before

\* C8: in every reachable state, total_writes equals the number of writes
\* accumulated in the underlying write batch since the last successful commit.
C8_TotalWritesEqualsPendingWrites ==
    total_writes = write_pbs

(***************************************************************************)
(* Properties of the upsert, stated for HistorySpec.                       *)
(***************************************************************************)
IsUpsert == last.op = "set_history_doc_refs"
Completed == last.exc = "none" /\ ~IsError(last.ret)
NewDocs == (DOMAIN db) \ (DOMAIN last.before)
ValidUrl(payload) == "final_url" \in DOMAIN payload /\ extract(payload.final_url).ok

\* the documents of collection d that the key designates: by dealroom_id for a
\* numeric key, else by final_url, else (no final_url match) by current_related_urls
ByIdMatches(d, key) ==
    {p \in DOMAIN d : "dealroom_id" \in DOMAIN d[p] /\ d[p].dealroom_id = IntVal(key.n)}
ByUrlMatches(d, key) ==
    {p \in DOMAIN d : "final_url" \in DOMAIN d[p] /\ d[p].final_url = extract(key.s).url}
ByRelatedMatches(d, key) ==
    {p \in DOMAIN d : "current_related_urls" \in DOMAIN d[p]
                      /\ extract(key.s).url \in d[p].current_related_urls}
Designated(d, key) ==
    IF key.numeric THEN ByIdMatches(d, key)
    ELSE IF ByUrlMatches(d, key) # {} THEN ByUrlMatches(d, key)
    ELSE ByRelatedMatches(d, key)

\* what set(merge=True) of the payload (dealroom_id as an int) leaves in a document
Written(old, payload, now) ==
    Merge(Merge(old, IF "dealroom_id" \in DOMAIN payload
                     THEN [payload EXCEPT !.dealroom_id = IntVal(@.n)]
                     ELSE payload),
          [last_edit |-> now])

\* C9: set_history_doc_refs with a key that matches no history document and a
\* payload with a valid URL creates exactly one new history document (when the
\* call goes through, i.e. does not report ERROR); that document carries the
\* payload, with dealroom_id = -1 when the payload has no dealroom_id; no
\* existing document is modified, whatever the call returns.
C9_NoMatchValidUrlCreatesOneDocument ==
    (IsUpsert /\ last.matched = 0 /\ ValidUrl(last.payload)) =>
        /\ \A p \in DOMAIN last.before : p \in DOMAIN db /\ db[p] = last.before[p]
        /\ Cardinality(NewDocs) <= 1
        /\ Completed =>
              /\ last.ret = RetCode(CREATED)
              /\ NewDocs = {last.target}
              /\ db[last.target] =
                    Written(IF "dealroom_id" \in DOMAIN last.payload
                            THEN EmptyDoc
                            ELSE [dealroom_id |-> IntVal(-1)],
                            last.payload, last.now)

\* C9 witness: a key that matched nothing in a non-empty collection, a
\* payload with a valid URL and no dealroom_id, and the new document with -1
C9_Witness ==
    /\ IsUpsert
    /\ ~last.key.none
    /\ last.matched = 0
    /\ last.before # EmptyDb
    /\ ValidUrl(last.payload)
    /\ "dealroom_id" \notin DOMAIN last.payload
    /\ last.ret = RetCode(CREATED)
    /\ NewDocs = {last.target}
    /\ db[last.target].dealroom_id = IntVal(-1)

\* C10: set_history_doc_refs with a key (URL or numeric id) for which the lookup
\* finds exactly one matching document writes the payload to that document
\* only: no document is created, no other document is modified, and when the
\* call goes through the matched document holds the payload.
C10_SingleMatchWritesThatDocumentOnly ==
    (IsUpsert /\ last.matched = 1) =>
        /\ Cardinality(Designated(last.before, last.key)) = 1
        /\ DOMAIN db = DOMAIN last.before
        /\ \A p \in DOMAIN last.before :
              p \notin Designated(last.before, last.key) => db[p] = last.before[p]
        /\ last.target # <<>> => last.target \in Designated(last.before, last.key)
        /\ Completed =>
              /\ last.ret = RetCode(UPDATED)
              /\ last.target \in Designated(last.before, last.key)
              /\ db[last.target] = Written(last.before[last.target], last.payload, last.now)

\* C10 witness: a URL key whose single match was updated while another
\* document of the collection stayed as it was
C10_Witness ==
    /\ IsUpsert
    /\ last.matched = 1
    /\ ~last.key.numeric
    /\ last.ret = RetCode(UPDATED)
    /\ Cardinality(DOMAIN last.before) = 2
    /\ db[last.target] # last.before[last.target]
    /\ "test_field" \in DOMAIN db[last.target]

\* the lookup of the last call completed (it returned the lists of matches)
LookedUp == last.matched >= 0
MalformedKey(key) == ~key.none /\ ~key.numeric /\ ~extract(key.s).ok

\* C11: set_history_doc_refs with a key whose lookup finds two or more matching
\* history documents returns ERROR and writes nothing: the history collection
\* is the same after the call as before it.
C11_DuplicateMatchesReturnErrorWithoutWrite ==
    (IsUpsert /\ ~last.key.none /\ LookedUp
        /\ Cardinality(Designated(last.before, last.key)) >= 2) =>
        /\ last.matched = Cardinality(Designated(last.before, last.key))
        /\ last.exc = "none"
        /\ last.ret = RetCode(ERROR)
        /\ last.target = <<>>
        /\ db = last.before

\* C11 witness: a URL key that two documents match by final_url, rejected
C11_Witness ==
    /\ IsUpsert
    /\ ~last.key.none /\ ~last.key.numeric
    /\ Cardinality(ByUrlMatches(last.before, last.key)) = 2
    /\ last.matched = 2
    /\ last.ret = RetCode(ERROR)
    /\ db = last.before

\* no two documents of the collection share a final_url (other than the empty
\* one) or a dealroom_id (other than the markers -1 and -2)
UniqueHistory(d) ==
    \A p, q \in DOMAIN d :
        p # q =>
            /\ ~("final_url" \in DOMAIN d[p] /\ "final_url" \in DOMAIN d[q]
                    /\ d[p].final_url # "" /\ d[p].final_url = d[q].final_url)
            /\ ~("dealroom_id" \in DOMAIN d[p] /\ "dealroom_id" \in DOMAIN d[q]
                    /\ d[p].dealroom_id.n >= 0 /\ d[p].dealroom_id = d[q].dealroom_id)

\* C12: a set_history_doc_refs call on a history collection in which no two
\* documents share a final_url or a dealroom_id leaves a collection in which
\* no two documents share a final_url or a dealroom_id.
C12_UpsertKeepsHistoryUnique ==
    (IsUpsert /\ UniqueHistory(last.before)) => UniqueHistory(db)

BadUrl(payload) ==
    "final_url" \in DOMAIN payload /\ payload.final_url # "" /\ ~extract(payload.final_url).ok
BadId(payload) ==
    "dealroom_id" \in DOMAIN payload
        /\ (~payload.dealroom_id.num \/ payload.dealroom_id.n < -2)
\* the client calls of a completed lookup: one stream for an id, two for a URL
LookupCalls(key) == IF key.none THEN 0 ELSE IF key.numeric THEN 1 ELSE 2

C14_CreateWithoutFinalUrlIsError ==
    (IsUpsert /\ last.key.none /\ "final_url" \notin DOMAIN last.payload) =>
        /\ last.ret = RetCode(ERROR)
        /\ NewDocs = {}

\* C15: every set_history_doc_refs call that creates or updates a history
\* document returns SUCCESS, so every value the call returns is SUCCESS or ERROR.
C15_ReturnsSuccessOrError ==
    (IsUpsert /\ last.exc = "none") => last.ret \in {RetCode(SUCCESS), RetCode(ERROR)}

\* C18: a facade set or update that returns SUCCESS on a document directly
\* inside the history collection has also set that document's last_edit, after
\* the write and within the same attempt (the attempt made two client calls);
\* for a document anywhere else no last_edit write is issued (one client call
\* per attempt) and the document gets no last_edit.
C18_LastEditFollowsHistoryWrites ==
    (last.op \in {"set", "update"}) =>
        IF last.ref.path \in HistoryPaths
        THEN last.ret = RetCode(SUCCESS) =>
                /\ last.ref.path \in DOMAIN db
                /\ "last_edit" \in DOMAIN db[last.ref.path]
                /\ db[last.ref.path].last_edit = calls
                /\ \A f \in DOMAIN last.data : db[last.ref.path][f] = last.data[f]
                /\ last.remote >= Len(last.tries) + 1
        ELSE /\ last.remote = Len(last.tries)
             /\ last.ref.path \in DOMAIN db => "last_edit" \notin DOMAIN db[last.ref.path]

\* C18 witness: an update of a history document that failed once, then wrote
\* the data and the last_edit of this call
C18_Witness ==
    /\ last.op = "update"
    /\ last.ref.path \in HistoryPaths
    /\ last.tries = <<FALSE, TRUE>>
    /\ last.ret = RetCode(SUCCESS)
    /\ calls = 2
    /\ db[last.ref.path].last_edit = 2

\* C19: for a URL key whose lookup completed, the final_url matches alone
\* decide whenever there is one: their number is the number of matches, nothing
\* is created, and a write goes to a final_url match; the current_related_urls
\* matches decide only when no document matches by final_url, and a single
\* such match is then the document written.
C19_FinalUrlMatchesDecideBeforeRelated ==
    (IsUpsert /\ ~last.key.none /\ ~last.key.numeric /\ LookedUp) =>
        IF ByUrlMatches(last.before, last.key) # {}
        THEN /\ last.matched = Cardinality(ByUrlMatches(last.before, last.key))
             /\ NewDocs = {}
             /\ last.target # <<>> => last.target \in ByUrlMatches(last.before, last.key)
        ELSE /\ last.matched = Cardinality(ByRelatedMatches(last.before, last.key))
             /\ (last.matched = 1 /\ last.target # <<>>) =>
                    /\ last.target \in ByRelatedMatches(last.before, last.key)
                    /\ NewDocs = {}

\* C19 witness: one document matches by final_url and another one by
\* current_related_urls; the final_url match is the one updated
C19_Witness ==
    /\ IsUpsert
    /\ ~last.key.none /\ ~last.key.numeric
    /\ Cardinality(ByUrlMatches(last.before, last.key)) = 1
    /\ ByRelatedMatches(last.before, last.key) # {}
    /\ ByRelatedMatches(last.before, last.key) # ByUrlMatches(last.before, last.key)
    /\ last.ret = RetCode(UPDATED)
    /\ last.target \in ByUrlMatches(last.before, last.key)
    /\ db[last.target] # last.before[last.target]

\* the existing documents that the call changed
ChangedDocs == {p \in DOMAIN last.before : p \in DOMAIN db /\ db[p] # last.before[p]}

\* C20: set_history_doc_refs returns CREATED exactly when it wrote a newly
\* allocated document, UPDATED exactly when it wrote an existing matched
\* document, and ERROR in every other case.
C20_StatusTellsWhatWasWritten ==
    IsUpsert =>
        /\ (last.exc = "none" /\ last.ret = RetCode(CREATED)) <=> (NewDocs # {})
        /\ (last.exc = "none" /\ last.ret = RetCode(UPDATED)) <=> (ChangedDocs # {})
        /\ (NewDocs = {} /\ ChangedDocs = {}) => (last.exc = "none" /\ last.ret = RetCode(ERROR))

\* the number of page fetches that n documents take at the given page size
PagesFor(n, page_size) == (n \div page_size) + 1

\* C17: get_all terminates and returns every document of the base query
\* exactly once, in query order, whatever the page size (a number of results
\* that is a multiple of page_size costs one more, empty, page); it never
\* raises, and it returns ERROR, never a partial list, when a page fails.
C17_GetAllReturnsEveryDocumentOnce ==
    last.op = "get_all" =>
        /\ last.exc = "none"
        /\ ~last.failed =>
              /\ last.ret = RetObj(ClientRead(db, last.ref))
              /\ last.pages = PagesFor(Len(ClientRead(db, last.ref)), last.page_size)
        /\ last.failed => last.ret = RetCode(ERROR)

\* C16 as stated: no step of the library removes a document, every document
\* that existed before the step still exists after it.
C16_NoOperationDeletesADocument ==
    [][\A p \in DOMAIN db : p \in DOMAIN db']_vars

\* C16: the facade, set_history_doc_refs and the Batcher's set, create and
\* update never remove a document; a document disappears only in a Batcher
\* commit that succeeds on a batch for which Batcher.delete was called on
\* that document since the last successful commit.
C16_OnlyCommittedBatcherDeleteRemoves ==
    [][\A p \in DOMAIN db :
            p \notin DOMAIN db' =>
                /\ blast'.op = "commit"
                /\ blast'.ret = RetCode(SUCCESS)
                /\ p \in DOMAIN pending
                /\ pending[p].deleted]_vars

\* C16 witness: the facade set has created a document, and after a
\* successful Batcher commit the store is empty again
C16_Witness ==
    /\ last.op = "set"
    /\ last.ret = RetCode(SUCCESS)
    /\ blast.op = "commit"
    /\ blast.ret = RetCode(SUCCESS)
    /\ blast.before > 0
    /\ db = EmptyDb

\* C21: every document written by set_history_doc_refs that carries a
\* dealroom_id stores it as an integer greater than or equal to -2 (a string
\* identifier is converted before the write), and every document the call
\* creates has both a final_url and a dealroom_id field.
C21_WrittenIdsAreIntegersAndCreatedDocsComplete ==
    (IsUpsert /\ last.target \in DOMAIN db) =>
        /\ "dealroom_id" \in DOMAIN db[last.target] =>
              /\ ~db[last.target].dealroom_id.isStr
              /\ db[last.target].dealroom_id.num
              /\ db[last.target].dealroom_id.n >= _DELETED_DEALROOM_ENTITY_ID
        /\ last.target \in NewDocs =>
              {"final_url", "dealroom_id"} \subseteq DOMAIN db[last.target]

\* C21 witness: a document created from a payload that gave the identifier
\* as a string and no final_url
C21_Witness ==
    /\ IsUpsert
    /\ "dealroom_id" \in DOMAIN last.payload
    /\ last.payload.dealroom_id.isStr
    /\ "final_url" \notin DOMAIN last.payload
    /\ last.ret = RetCode(CREATED)
    /\ last.target \in NewDocs
    /\ db[last.target].dealroom_id = IntVal(last.payload.dealroom_id.n)
    /\ db[last.target].final_url = ""

\* a Batcher write rejected for exceeding the limit; a commit that succeeded
Rejected(b) == b.op \in BatcherWriteOps /\ b.exc = "InvalidArgument"
CommitSucceeded(b) == b.op = "commit" /\ b.ret = RetCode(SUCCESS)

\* C22: once a Batcher write has been rejected for exceeding the limit, every
\* later set/create/update/delete is rejected too and forwards nothing to the
\* underlying batch, through any number of failed commits, until a commit
\* succeeds; the successful commit restarts the count, so that the write
\* after k counted ones is rejected exactly when k >= 500.
C22_RejectionLastsUntilSuccessfulCommit ==
    [][/\ Rejected(blast') => total_writes' > MAX_WRITES_PER_BATCH
       /\ (Rejected(blast) /\ blast'.op \in BatcherWriteOps) => Rejected(blast')
       /\ (total_writes > MAX_WRITES_PER_BATCH /\ ~CommitSucceeded(blast')) =>
              /\ total_writes' > MAX_WRITES_PER_BATCH
              /\ write_pbs' = write_pbs
              /\ blast'.op \in BatcherWriteOps => (Rejected(blast') /\ ~blast'.forwarded)
       /\ CommitSucceeded(blast') => (total_writes' = 0 /\ write_pbs' = 0)
       /\ (blast'.op \in BatcherWriteOps /\ total_writes < MAX_WRITES_PER_BATCH) =>
              ~Rejected(blast')]_vars

\* C22 witness: a write rejected after an earlier rejection, with the 500
\* accepted writes still pending
C22_Witness ==
    /\ Rejected(blast)
    /\ blast.before = MAX_WRITES_PER_BATCH + 1
    /\ ~blast.forwarded
    /\ write_pbs = MAX_WRITES_PER_BATCH

\* C23: when set_history_doc_refs with a key has created a document and the
\* same call (same key, same payload) is made again and goes through, the
\* second call updates the document the first one created: the history
\* collection holds as many documents after the second call as after the first.
C23_RepeatedUpsertUpdatesTheCreatedDocument ==
    (/\ last.op = "set_history_doc_refs_again"
     /\ ~last.key.none
     /\ last.first.exc = "none" /\ last.first.ret = RetCode(CREATED)
     /\ last.exc = "none" /\ ~IsError(last.ret)) =>
        /\ last.ret = RetCode(UPDATED)
        /\ last.target = last.first.target
        /\ Cardinality(DOMAIN db) = Cardinality(DOMAIN last.before)

\* C24: when two clients run set_history_doc_refs concurrently with the same URL
\* key and a payload carrying that final_url, on a collection with no matching
\* document, no interleaving of their lookups and writes leaves more than one
\* history document with that final_url.
C24_ConcurrentUpsertsLeaveOneDocument ==
    Cardinality({p \in DOMAIN db : /\ "final_url" \in DOMAIN db[p]
                                   /\ db[p].final_url = "a.com"}) <= 1

====
